---- MODULE Spec2Model ----
(***************************************************************************)
(* Model of doc_sorter.py: the per-document pipeline process_pdf (native   *)
(* extraction, classification, OCR retry, unreadable check, move) and the  *)
(* batch loop process_pdfs, over a small file system.                      *)
(*                                                                         *)
(* Python strings are sequences of one-character strings, so that lower(), *)
(* slicing, substring search, str() of a dict, os.path.splitext and the    *)
(* f-string of get_unique_filename are computed and not assumed.           *)
(* print() is modelled as appending to the log and never fails.            *)
(***************************************************************************)
EXTENDS Integers, Sequences, FiniteSets, TLC

\* ------------------------------------------------------------------------
\* Bounds of the model
\* ------------------------------------------------------------------------
\* longest directory listing returned by os.listdir(INPUT_DIR)
MaxEntries == 2
\* the output tree may initially hold inv.pdf, inv-1.pdf .. inv-MaxSuffix.pdf
MaxSuffix == 2
\* pieces a text handed to redact_sensitive_info is made of, at most
MaxChunks == 3
\* applications of redact_sensitive_info to one text, at most
MaxRedacts == 2

\* ------------------------------------------------------------------------
\* String literals
\* ------------------------------------------------------------------------
S_unknown == <<"u", "n", "k", "n", "o", "w", "n">>
S_unidentified == <<"u", "n", "i", "d", "e", "n", "t", "i", "f", "i", "e", "d">>
S_unreadable == <<"u", "n", "r", "e", "a", "d", "a", "b", "l", "e">>
S_Unkn == <<"U", "n", "k", "n">>
S_dotpdf == <<".", "p", "d", "f">>
S_Invoice == <<"I", "n", "v", "o", "i", "c", "e">>
S_Unreadable == <<"U", "n", "r", "e", "a", "d", "a", "b", "l", "e">>
S_unreadable_memo == <<"u", "n", "r", "e", "a", "d", "a", "b", "l", "e", " ", "m", "e", "m", "o">>
S_2023_04_01 == <<"2", "0", "2", "3", "-", "0", "4", "-", "0", "1">>
S_2023 == <<"2", "0", "2", "3">>
S_20 == <<"2", "0">>
S_inv == <<"i", "n", "v">>
S_inv_pdf == <<"i", "n", "v", ".", "p", "d", "f">>
S_hidden == <<".", "p", "d", "f">>
S_Unidentified_sender == <<"U", "n", "i", "d", "e", "n", "t", "i", "f", "i", "e", "d", " ", "s", "e", "n", "d", "e", "r">>
S_a_pdf == <<"a", ".", "p", "d", "f">>
S_B_PDF == <<"B", ".", "P", "D", "F">>
S_notes_txt == <<"n", "o", "t", "e", "s", ".", "t", "x", "t">>
S_None == <<"N", "o", "n", "e">>
S_ssn_text == <<"i", "d", " ", "1", "2", "3", "-", "4", "5", "-", "6", "7", "8", "9">>
S_scan_text == <<"s", "c", "a", "n">>
K_category == <<"'", "c", "a", "t", "e", "g", "o", "r", "y", "'", ":", " ">>
K_date == <<"'", "d", "a", "t", "e", "'", ":", " ">>
K_filename == <<"'", "f", "i", "l", "e", "n", "a", "m", "e", "'", ":", " ">>
K_note == <<"'", "n", "o", "t", "e", "'", ":", " ">>

\* ------------------------------------------------------------------------
\* Python string operations
\* ------------------------------------------------------------------------
UpperChars == <<"A", "B", "C", "D", "E", "F", "G", "H", "I", "J", "K", "L", "M",
                "N", "O", "P", "Q", "R", "S", "T", "U", "V", "W", "X", "Y", "Z">>
LowerChars == <<"a", "b", "c", "d", "e", "f", "g", "h", "i", "j", "k", "l", "m",
                "n", "o", "p", "q", "r", "s", "t", "u", "v", "w", "x", "y", "z">>

UpperSet == {UpperChars[i] : i \in 1..Len(UpperChars)}
ToLower ==
    [c \in UpperSet |->
        LowerChars[CHOOSE i \in 1..Len(UpperChars) : UpperChars[i] = c]]

\* str.lower() on one character
LowerCh(c) == IF c \in UpperSet THEN ToLower[c] ELSE c

\* str.lower()
Lower(s) == [i \in 1..Len(s) |-> LowerCh(s[i])]

\* the slice s[:n]
Prefix(s, n) == SubSeq(s, 1, IF Len(s) < n THEN Len(s) ELSE n)

\* the slice s[n:] (0-based n)
Suffix(s, n) == SubSeq(s, n + 1, Len(s))

\* sub in s
Contains(s, sub) ==
    \E i \in 0..(Len(s) - Len(sub)) : \A j \in 1..Len(sub) : s[i + j] = sub[j]

\* s.endswith(suf)
EndsWith(s, suf) ==
    /\ Len(s) >= Len(suf)
    /\ SubSeq(s, Len(s) - Len(suf) + 1, Len(s)) = suf

DigitChars == <<"0", "1", "2", "3", "4", "5", "6", "7", "8", "9">>

\* str(n) of a non-negative int
RECURSIVE IntStr(_)
IntStr(n) ==
    IF n < 10 THEN <<DigitChars[n + 1]>>
    ELSE IntStr(n \div 10) \o <<DigitChars[(n % 10) + 1]>>

\* ------------------------------------------------------------------------
\* JSON values returned by the classification service
\* ------------------------------------------------------------------------
\* a value stored under a key of the result object; "missing": no such key
Missing == [t |-> "missing", s |-> <<>>, n |-> 0]
Null == [t |-> "null", s |-> <<>>, n |-> 0]
StrV(s) == [t |-> "str", s |-> s, n |-> 0]
IntV(n) == [t |-> "int", s |-> <<>>, n |-> n]

Keys == <<"category", "date", "filename", "note">>

\* a parsed result: None, a JSON object, or a JSON string (a non-object)
NoneResp ==
    [kind |-> "none", category |-> Missing, date |-> Missing,
     filename |-> Missing, note |-> Missing, s |-> <<>>]
Dict(c, d, f, x) ==
    [kind |-> "dict", category |-> c, date |-> d, filename |-> f, note |-> x,
     s |-> <<>>]
StrResp(s) ==
    [kind |-> "str", category |-> Missing, date |-> Missing,
     filename |-> Missing, note |-> Missing, s |-> s]

\* key in ai_response
Has(r, k) == r.kind = "dict" /\ r[k].t # "missing"

\* bool(v) of a stored value
TruthyV(v) ==
    CASE v.t = "str" -> v.s # <<>>
      [] v.t = "int" -> v.n # 0
      [] OTHER -> FALSE

\* bool(ai_response), the negation of "not ai_response"
Truthy(r) ==
    CASE r.kind = "dict" -> \E i \in 1..Len(Keys) : Has(r, Keys[i])
      [] r.kind = "str" -> r.s # <<>>
      [] OTHER -> FALSE

\* repr(v) of a stored value
Repr(v) ==
    CASE v.t = "str" -> <<"'">> \o v.s \o <<"'">>
      [] v.t = "int" -> IntStr(v.n)
      [] OTHER -> S_None

KeyLit(k) ==
    CASE k = "category" -> K_category
      [] k = "date" -> K_date
      [] k = "filename" -> K_filename
      [] OTHER -> K_note

\* "'k1': v1, 'k2': v2" for the keys Keys[i..] the object has
RECURSIVE Items(_, _, _)
Items(r, i, first) ==
    IF i > Len(Keys) THEN <<>>
    ELSE IF Has(r, Keys[i])
         THEN (IF first THEN <<>> ELSE <<",", " ">>)
              \o KeyLit(Keys[i]) \o Repr(r[Keys[i]]) \o Items(r, i + 1, FALSE)
         ELSE Items(r, i + 1, first)

\* str(ai_response)
Str(r) ==
    CASE r.kind = "dict" -> <<"{">> \o Items(r, 1, TRUE) \o <<"}">>
      [] r.kind = "str" -> r.s
      [] OTHER -> S_None

\* str(v) of a stored value, as an f-string formats it
StrOf(v) == IF v.t = "str" THEN v.s ELSE Repr(v)

\* ------------------------------------------------------------------------
\* The classification service and get_llm_metadata
\* ------------------------------------------------------------------------
\* what the request of get_llm_metadata gives: an exception, content that is
\* not JSON, or content that parses to a value (JSON null parses to None)
ReplyError == [k |-> "error", v |-> NoneResp]
ReplyNotJson == [k |-> "text", v |-> NoneResp]
ReplyJson(v) == [k |-> "json", v |-> v]

\* the value get_llm_metadata returns for a reply of the service
get_llm_metadata(reply) ==
    IF reply.k = "json" THEN reply.v ELSE NoneResp

\* variant: the retry condition without .lower()
IsAmbiguous_cs(r) ==
    \E str \in {Str(r)} :
        \/ Contains(str, S_unknown)
        \/ Contains(str, S_unidentified)

\* the condition of the OCR retry in process_pdf
\* variant: only "unidentified" asks for the retry
IsAmbiguous_oneword(r) ==
    \E str \in {Str(r)} : \E low \in {Lower(str)} :
        Contains(low, S_unidentified)

IsAmbiguous(r) ==
    \E str \in {Str(r)} : \E low \in {Lower(str)} :
        \/ Contains(low, S_unknown)
        \/ Contains(low, S_unidentified)

\* ai_response.get("category", "").lower() raises AttributeError
is_unreadable_raises(r) ==
    \/ r.kind # "dict"
    \/ r.category.t \in {"null", "int"}

\* variant: is_unreadable without .lower()
is_unreadable_cs(r) ==
    (IF Has(r, "category") THEN r.category.s ELSE <<>>) = S_unreadable

\* is_unreadable(ai_response), when it does not raise
is_unreadable(r) ==
    Lower(IF Has(r, "category") THEN r.category.s ELSE <<>>) = S_unreadable

\* ------------------------------------------------------------------------
\* The Filing Engine: year, directory, os.path.splitext, get_unique_filename
\* ------------------------------------------------------------------------
\* date[:4] raises TypeError (an int is not subscriptable)
YearRaises(d) == d.t = "int" /\ d.n # 0

\* variant: the year without the test for the sentinel "unknown"
Year_nosentinel(d) ==
    IF TruthyV(d) THEN Prefix(d.s, 4) ELSE S_Unkn

\* year = date[:4] if date and date != "unknown" else "Unkn"
Year(d) ==
    IF TruthyV(d) /\ d # StrV(S_unknown) THEN Prefix(d.s, 4) ELSE S_Unkn

\* year_dir, as the pair of its two path components below OUTPUT_DIR:
\* OUTPUT_DIR/<year>/<year> - <cat>
YearDir(r) == [year |-> Year(r.date), cat |-> StrOf(r.category)]

\* index of the last "." of p, 0 when there is none (p.rfind("."))
LastDot(p) ==
    IF \E i \in 1..Len(p) : p[i] = "."
    THEN CHOOSE i \in 1..Len(p) :
            p[i] = "." /\ \A j \in (i + 1)..Len(p) : p[j] # "."
    ELSE 0

\* os.path.splitext(p) for a name without directory separators: the
\* extension starts at the last dot unless only dots precede it
splitext(p) ==
    LET dot == LastDot(p) IN
    IF dot > 0 /\ \E j \in 1..(dot - 1) : p[j] # "."
    THEN <<Prefix(p, dot - 1), Suffix(p, dot - 1)>>
    ELSE <<p, <<>>>>

\* os.path.exists(os.path.join(directory, name)); joining the empty name
\* gives the directory itself, which exists
PathExists(fsys, dir, name) ==
    \/ name = <<>>
    \/ [dir |-> dir, name |-> name] \in DOMAIN fsys

\* variant: "if" in place of "while", one renaming attempt only
UniqueLoop_once(fsys, dir, base, ext, counter, new_filename) ==
    IF PathExists(fsys, dir, new_filename)
    THEN base \o <<"-">> \o IntStr(counter) \o ext
    ELSE new_filename

\* the while loop of get_unique_filename, entered with new_filename
RECURSIVE UniqueLoop(_, _, _, _, _, _)
UniqueLoop(fsys, dir, base, ext, counter, new_filename) ==
    IF PathExists(fsys, dir, new_filename)
    THEN UniqueLoop(fsys, dir, base, ext, counter + 1,
                    base \o <<"-">> \o IntStr(counter) \o ext)
    ELSE new_filename

\* variant: the suggested name is used as it is
get_unique_filename_none(fsys, dir, filename) == filename

get_unique_filename(fsys, dir, filename) ==
    LET parts == splitext(filename) IN
    UniqueLoop(fsys, dir, parts[1], parts[2], 1, filename)

\* filename.lower().endswith(".pdf") of process_pdfs
IsPdfName(name) == EndsWith(Lower(name), S_dotpdf)

\* ------------------------------------------------------------------------
\* Inputs of the model
\* ------------------------------------------------------------------------
\* entries of INPUT_DIR
Names == {S_a_pdf, S_B_PDF, S_notes_txt}

\* os.listdir(INPUT_DIR): distinct names in an order of the system's choice
Listings ==
    UNION {{l \in [1..n -> Names] : \A i, j \in 1..n : l[i] = l[j] => i = j}
           : n \in 0..MaxEntries}

\* texts the OCR extractor can return ("" on failure)
OcrTexts == {<<>>, S_scan_text}

Invoice == StrV(S_Invoice)
Date2023 == StrV(S_2023_04_01)
InvPdf == StrV(S_inv_pdf)

\* values the service's content can parse to
JsonValues ==
    { NoneResp,                                             \* null
      Dict(Missing, Missing, Missing, Missing),             \* {}
      StrResp(S_scan_text),                                 \* "scan"
      Dict(Invoice, Date2023, InvPdf, Missing),
      Dict(Invoice, StrV(S_unknown), InvPdf, Missing),
      Dict(StrV(S_Unreadable), Missing, Missing, Missing),
      Dict(StrV(S_unreadable), StrV(S_unknown), Missing, Missing),
      Dict(StrV(S_unreadable_memo), Date2023, InvPdf, Missing),
      Dict(Invoice, Date2023, InvPdf, StrV(S_Unidentified_sender)),
      Dict(Invoice, Missing, InvPdf, Missing),
      Dict(Invoice, Null, InvPdf, Missing),
      Dict(Invoice, StrV(<<>>), InvPdf, Missing),
      Dict(Invoice, IntV(7), InvPdf, Missing),
      Dict(Invoice, Date2023, IntV(7), Missing),
      Dict(IntV(7), Date2023, InvPdf, Missing),
      Dict(Invoice, StrV(S_20), StrV(S_hidden), Missing) }

Replies == {ReplyError, ReplyNotJson} \cup {ReplyJson(v) : v \in JsonValues}

\* the directory the initial output tree may hold files in
HotDir == [year |-> S_2023, cat |-> S_Invoice]

\* inv.pdf, inv-1.pdf, .. inv-MaxSuffix.pdf
HotNames ==
    {S_inv_pdf} \cup
    {S_inv \o <<"-">> \o IntStr(n) \o S_dotpdf : n \in 1..MaxSuffix}

\* the entries HotDir may hold before the run: none, or inv.pdf with any
\* of the numbered names
InitialTrees ==
    {{}} \cup {{S_inv_pdf} \cup more : more \in SUBSET (HotNames \ {S_inv_pdf})}

\* content of a file: the input entry it came from (<<>> for a file that
\* was in the output tree before the run) and whether it is complete
OldContent == [src |-> <<>>, whole |-> TRUE]
ContentOf(name) == [src |-> name, whole |-> TRUE]

NoTarget == [dir |-> [year |-> <<>>, cat |-> <<>>], name |-> <<>>]

\* what is recorded of the document being processed
NewDoc ==
    [extractCalls |-> 0, llmCalls |-> 0, ocrCalls |-> 0, movePdfCalls |-> 0,
     moveCalls |-> 0, res1 |-> NoneResp, res2 |-> NoneResp, sent |-> <<>>,
     why |-> "", dirs0 |-> {}, handleOpen |-> FALSE]

\* ------------------------------------------------------------------------
\* redact_sensitive_info
\* ------------------------------------------------------------------------
\* the replacement texts
T_SSN == <<"[", "R", "E", "D", "A", "C", "T", "E", "D", " ", "S", "S", "N", "]">>
T_CARD == <<"[", "R", "E", "D", "A", "C", "T", "E", "D", " ", "C", "A", "R", "D", "]">>
T_ACCOUNT == <<"[", "R", "E", "D", "A", "C", "T", "E", "D", " ", "A", "C", "C", "O", "U", "N", "T", "]">>

\* the bodies of the patterns between their two \b: "d" stands for \d, "-"
\* for itself
P_SSN == <<"d", "d", "d", "-", "d", "d", "-", "d", "d", "d", "d">>
P_CARD == <<"d", "d", "d", "d", "-", "d", "d", "d", "d", "-", "d", "d", "d", "d", "-", "d", "d", "d", "d">>
P_ACCOUNT == <<"d", "d", "d", "d", "d", "d", "d", "d", "d">>

DigitSet == {DigitChars[i] : i \in 1..Len(DigitChars)}
LowerSet == {LowerChars[i] : i \in 1..Len(LowerChars)}

\* \w of re on the characters of the model
IsWordChar(c) == c \in DigitSet \cup UpperSet \cup LowerSet \cup {"_"}

\* s has a word character at index i
WordAt(s, i) == i >= 1 /\ i <= Len(s) /\ IsWordChar(s[i])

\* \b between s[i] and s[i + 1]; the two ends of s count as non-word
Boundary(s, i) == WordAt(s, i) # WordAt(s, i + 1)

\* \b p \b matches s from index i on
MatchAt(s, i, p) ==
    /\ i + Len(p) - 1 <= Len(s)
    /\ Boundary(s, i - 1)
    /\ \A k \in 1..Len(p) :
          IF p[k] = "d" THEN s[i + k - 1] \in DigitSet
                        ELSE s[i + k - 1] = p[k]
    /\ Boundary(s, i + Len(p) - 1)

\* the scan of re.sub from index i on: leftmost matches, none overlapping
RECURSIVE SubFrom(_, _, _, _)
SubFrom(s, i, p, token) ==
    IF i > Len(s) THEN <<>>
    ELSE IF MatchAt(s, i, p) THEN token \o SubFrom(s, i + Len(p), p, token)
    ELSE <<s[i]>> \o SubFrom(s, i + 1, p, token)

\* re.sub(r"\b p \b", token, s)
re_sub(p, token, s) == SubFrom(s, 1, p, token)

\* the three substitutions, in the order of the source
redact_sensitive_info(t) ==
    re_sub(P_ACCOUNT, T_ACCOUNT, re_sub(P_CARD, T_CARD, re_sub(P_SSN, T_SSN, t)))

\* ------------------------------------------------------------------------
\* State
\* ------------------------------------------------------------------------
VARIABLES
    listing,      \* the list os.listdir(INPUT_DIR) returned
    idx,          \* position of the for loop of process_pdfs in listing
    pc,           \* control point
    file,         \* the entry process_pdf was called with
    text,         \* local text of process_pdf
    ai_response,  \* local ai_response of process_pdf
    target,       \* new_file_path of move_pdf
    doc,          \* calls made and results obtained for the current document,
                  \* and the directories found when process_pdf was entered
    srcFiles,     \* entries of INPUT_DIR still holding their document
    dirs,         \* directories below OUTPUT_DIR
    files,        \* files below OUTPUT_DIR: path -> content
    files0,       \* files when process_pdf was entered
    calls,        \* entries process_pdf was called with, in order
    log,          \* decisions printed, in order
    redactIO      \* a text handed to redact_sensitive_info, followed by the
                  \* results of applying it again and again

vars == <<listing, idx, pc, file, text, ai_response, target, doc, srcFiles,
          dirs, files, files0, calls, log, redactIO>>

Init ==
    /\ listing \in Listings
    /\ idx = 1
    /\ pc = "loop"
    /\ file = <<>>
    /\ text = <<>>
    /\ ai_response = NoneResp
    /\ target = NoTarget
    /\ doc = NewDoc
    /\ srcFiles = {listing[i] : i \in 1..Len(listing)}
    /\ \E present \in InitialTrees :
          /\ files = [p \in {[dir |-> HotDir, name |-> n] : n \in present}
                        |-> OldContent]
          /\ dirs = IF present = {} THEN {} ELSE {HotDir}
    /\ files0 = files
    /\ calls = <<>>
    /\ log = <<>>
    /\ redactIO = <<>>

\* a decision printed for the current document
Entry(what) == [file |-> file, what |-> what]

\* ------------------------------------------------------------------------
\* process_pdfs
\* ------------------------------------------------------------------------
\* the else branch of the loop: an entry that is not a .pdf is skipped
SkipEntry ==
    /\ pc = "loop"
    /\ idx <= Len(listing)
    /\ ~IsPdfName(listing[idx])
    /\ log' = Append(log, [file |-> listing[idx], what |-> "Skipped"])
    /\ idx' = idx + 1
    /\ UNCHANGED redactIO
    /\ UNCHANGED <<listing, pc, file, text, ai_response, target, doc,
                   srcFiles, dirs, files, files0, calls>>

\* the if branch of the loop: process_pdf(file_path) is called
CallProcessPdf ==
    /\ pc = "loop"
    /\ idx <= Len(listing)
    /\ IsPdfName(listing[idx])
    /\ file' = listing[idx]
    /\ calls' = Append(calls, listing[idx])
    /\ pc' = "extract"
    /\ text' = <<>>
    /\ ai_response' = NoneResp
    /\ target' = NoTarget
    /\ doc' = [NewDoc EXCEPT !.dirs0 = dirs]
    /\ files0' = files
    /\ UNCHANGED redactIO
    /\ UNCHANGED <<listing, idx, srcFiles, dirs, files, log>>

\* process_pdf has returned: print() and the next iteration
ReturnToLoop ==
    /\ pc = "returned"
    /\ pc' = "loop"
    /\ idx' = idx + 1
    /\ UNCHANGED redactIO
    /\ UNCHANGED <<listing, file, text, ai_response, target, doc, srcFiles,
                   dirs, files, files0, calls, log>>

\* the listing is exhausted
EndOfBatch ==
    /\ pc = "loop"
    /\ idx > Len(listing)
    /\ pc' = "exit"
    /\ UNCHANGED redactIO
    /\ UNCHANGED <<listing, idx, file, text, ai_response, target, doc,
                   srcFiles, dirs, files, files0, calls, log>>

\* ------------------------------------------------------------------------
\* process_pdf
\* ------------------------------------------------------------------------
\* the text layer of the input files: a.pdf has one, B.PDF is a scan
NativeText(name) == IF name = S_a_pdf THEN S_ssn_text ELSE <<>>

\* variant: the extractor opens the file with mode "wb" and truncates it
ExtractNative_wb ==
    /\ pc = "extract"
    /\ text' = <<>>
    /\ srcFiles' = srcFiles \ {file}
    /\ doc' = [doc EXCEPT !.extractCalls = @ + 1]
    /\ pc' = "classify1"
    /\ UNCHANGED redactIO
    /\ UNCHANGED <<listing, idx, file, ai_response, target, dirs, files,
                   files0, calls, log>>

\* text = extract_text_with_pypdf(filename): the joined page texts, ""
\* when there is no text layer or the extraction fails
ExtractNative ==
    /\ pc = "extract"
    /\ text' = NativeText(file)
    /\ doc' = [doc EXCEPT !.extractCalls = @ + 1]
    /\ pc' = "classify1"
    /\ UNCHANGED redactIO
    /\ UNCHANGED <<listing, idx, file, ai_response, target, srcFiles, dirs,
                   files, files0, calls, log>>

\* variant: a failed first classification is retried with OCR
AfterFirst_retry(r) ==
    IF ~Truthy(r) \/ IsAmbiguous(r) THEN "ocr" ELSE "check"

\* where process_pdf goes after the first classification
\* variant: the unreadable test comes before the test of the retry condition
AfterFirst_unreadableFirst(r) ==
    IF ~Truthy(r) THEN "failed"
    ELSE IF ~is_unreadable_raises(r) /\ is_unreadable(r) THEN "check"
    ELSE IF IsAmbiguous(r) THEN "ocr"
    ELSE "check"

AfterFirst(r) ==
    IF ~Truthy(r) THEN "failed"
    ELSE IF IsAmbiguous(r) THEN "ocr"
    ELSE "check"

\* ai_response = get_llm_metadata(text), "if not ai_response: return None"
\* and the test of the retry condition
Classify1 ==
    /\ pc = "classify1"
    /\ \E reply \in Replies :
        LET r == get_llm_metadata(reply)
            next == AfterFirst(r)
        IN
        /\ ai_response' = r
        /\ doc' = [doc EXCEPT !.llmCalls = @ + 1, !.res1 = r,
                              !.sent = Append(@, Prefix(text, 3000)),
                              !.why = IF next = "failed" THEN "LLM error"
                                      ELSE @]
        /\ IF next = "failed"
           THEN /\ log' = Append(log, Entry("Failed"))
                /\ pc' = "returned"
           ELSE /\ log' = log
                /\ pc' = next
    /\ UNCHANGED redactIO
    /\ UNCHANGED <<listing, idx, file, text, target, srcFiles, dirs, files,
                   files0, calls>>

\* how a call of extract_text_with_gpt4_vision can go: PdfDocument raises;
\* page.render raises; the document has no page; a step after pdf.close()
\* (stacking, encoding, the remote call) raises; the service answers
OcrOutcomes == {"open fails", "render fails", "no pages", "fails after close",
                "answer"}

\* pdf.close() of line 61 is reached unless PdfDocument or page.render
\* raised; when page.render raised the handle of the open document stays
\* open until the garbage collector finalizes the object, which may or may
\* not have happened when the function returns
HandleLeftOpen(how, finalized) == how = "render fails" /\ ~finalized

\* text = extract_text_with_gpt4_vision(filename): the text, "" on failure
ExtractOcr ==
    /\ pc = "ocr"
    /\ \E how \in OcrOutcomes, finalized \in BOOLEAN, t \in OcrTexts :
        /\ how # "answer" => t = <<>>
        /\ text' = t
        /\ doc' = [doc EXCEPT !.ocrCalls = @ + 1,
                              !.handleOpen = HandleLeftOpen(how, finalized)]
    /\ pc' = "classify2"
    /\ UNCHANGED redactIO
    /\ UNCHANGED <<listing, idx, file, ai_response, target, srcFiles, dirs,
                   files, files0, calls, log>>

\* variant: the result of the retry is not assigned to ai_response
Classify2_unused ==
    /\ pc = "classify2"
    /\ \E reply \in Replies :
        LET r == get_llm_metadata(reply) IN
        doc' = [doc EXCEPT !.llmCalls = @ + 1, !.res2 = r,
                           !.sent = Append(@, Prefix(text, 3000))]
    /\ pc' = "check"
    /\ UNCHANGED redactIO
    /\ UNCHANGED <<listing, idx, file, text, ai_response, target, srcFiles,
                   dirs, files, files0, calls, log>>

\* variant: a retry that is ambiguous again goes back to the OCR extractor
Classify2_again ==
    /\ pc = "classify2"
    /\ \E reply \in Replies :
        LET r == get_llm_metadata(reply) IN
        /\ ai_response' = r
        /\ doc' = [doc EXCEPT !.llmCalls = @ + 1, !.res2 = r,
                              !.sent = Append(@, Prefix(text, 3000))]
        /\ pc' = IF Truthy(r) /\ IsAmbiguous(r) THEN "ocr" ELSE "check"
    /\ UNCHANGED redactIO
    /\ UNCHANGED <<listing, idx, file, text, target, srcFiles, dirs, files,
                   files0, calls, log>>

\* ai_response = get_llm_metadata(text) of the retry; the result is not
\* tested before is_unreadable
Classify2 ==
    /\ pc = "classify2"
    /\ \E reply \in Replies :
        LET r == get_llm_metadata(reply) IN
        /\ ai_response' = r
        /\ doc' = [doc EXCEPT !.llmCalls = @ + 1, !.res2 = r,
                              !.sent = Append(@, Prefix(text, 3000))]
    /\ pc' = "check"
    /\ UNCHANGED redactIO
    /\ UNCHANGED <<listing, idx, file, text, target, srcFiles, dirs, files,
                   files0, calls, log>>

\* variant: a None result is reported as unreadable
AfterCheck_noneUnreadable(r) ==
    IF r.kind = "none" THEN "Unreadable"
    ELSE IF is_unreadable_raises(r) THEN "Failed"
    ELSE IF is_unreadable(r) THEN "Unreadable"
    ELSE "move_pdf"

\* what "if is_unreadable(ai_response)" leads to: the except clause when
\* the call raises, the return when it is true, move_pdf otherwise
AfterCheck(r) ==
    IF is_unreadable_raises(r) THEN "Failed"
    ELSE IF is_unreadable(r) THEN "Unreadable"
    ELSE "move_pdf"

\* process_pdf ends with decision what, printed with reason why
Return(what, why) ==
    /\ pc' = "returned"
    /\ log' = Append(log, Entry(what))
    /\ doc' = [doc EXCEPT !.why = why]

\* variant: no try/except around the body of process_pdf, an exception of
\* is_unreadable ends the program
CheckUnreadable_uncaught ==
    /\ pc = "check"
    /\ CASE AfterCheck(ai_response) = "move_pdf" ->
                pc' = "move_pdf" /\ UNCHANGED <<log, doc>>
         [] AfterCheck(ai_response) = "Failed" ->
                pc' = "exit" /\ UNCHANGED <<log, doc>>
         [] OTHER -> Return("Unreadable", "unreadable")
    /\ UNCHANGED redactIO
    /\ UNCHANGED <<listing, idx, file, text, ai_response, target, srcFiles,
                   dirs, files, files0, calls>>

\* variant: the return after the unreadable message is missing
CheckUnreadable_noreturn ==
    /\ pc = "check"
    /\ CASE AfterCheck(ai_response) = "move_pdf" ->
                pc' = "move_pdf" /\ UNCHANGED <<log, doc>>
         [] AfterCheck(ai_response) = "Failed" ->
                Return("Failed", "AttributeError")
         [] OTHER ->
                /\ pc' = "move_pdf"
                /\ log' = Append(log, Entry("Unreadable"))
                /\ doc' = doc
    /\ UNCHANGED redactIO
    /\ UNCHANGED <<listing, idx, file, text, ai_response, target, srcFiles,
                   dirs, files, files0, calls>>

\* "if is_unreadable(ai_response): ... return None", with the except clause
CheckUnreadable ==
    /\ pc = "check"
    /\ CASE AfterCheck(ai_response) = "move_pdf" ->
                pc' = "move_pdf" /\ UNCHANGED <<log, doc>>
         [] AfterCheck(ai_response) = "Failed" ->
                Return("Failed", "AttributeError")
         [] OTHER -> Return("Unreadable", "unreadable")
    /\ UNCHANGED redactIO
    /\ UNCHANGED <<listing, idx, file, text, ai_response, target, srcFiles,
                   dirs, files, files0, calls>>

\* ------------------------------------------------------------------------
\* move_pdf
\* ------------------------------------------------------------------------
\* variant: date = ai_response.get("date", "unknown")
MissingKey_dateDefault(r) ==
    ~Has(r, "category") \/ ~Has(r, "filename")

\* a subscript of ai_response raises KeyError
MissingKey(r) ==
    ~Has(r, "category") \/ ~Has(r, "date") \/ ~Has(r, "filename")

\* the exception move_pdf raises before os.makedirs, "" when there is none
RaisedEarly(r) ==
    IF MissingKey(r) THEN "KeyError"
    ELSE IF YearRaises(r.date) THEN "TypeError"
    ELSE ""

\* move_pdf was entered
Entered == [doc EXCEPT !.movePdfCalls = @ + 1]

\* move_pdf up to new_file_path: the three subscripts, the year, makedirs
\* (which may fail) and get_unique_filename (os.path.splitext raises
\* TypeError for a filename that is no string); any exception is caught by
\* the except clause of process_pdf
MovePdfPrepare ==
    /\ pc = "move_pdf"
    /\ IF RaisedEarly(ai_response) # ""
       THEN /\ pc' = "returned"
            /\ log' = Append(log, Entry("Failed"))
            /\ doc' = [Entered EXCEPT !.why = RaisedEarly(ai_response)]
            /\ UNCHANGED <<dirs, target>>
       ELSE \E made \in BOOLEAN :
            LET year_dir == YearDir(ai_response) IN
            IF ~made
            THEN /\ pc' = "returned"
                 /\ log' = Append(log, Entry("Failed"))
                 /\ doc' = [Entered EXCEPT !.why = "OSError: makedirs"]
                 /\ UNCHANGED <<dirs, target>>
            ELSE /\ dirs' = dirs \cup {year_dir}
                 /\ IF ai_response.filename.t # "str"
                    THEN /\ pc' = "returned"
                         /\ log' = Append(log, Entry("Failed"))
                         /\ doc' = [Entered EXCEPT !.why = "TypeError"]
                         /\ target' = target
                    ELSE /\ target' =
                              [dir |-> year_dir,
                               name |-> get_unique_filename(
                                           files, year_dir,
                                           ai_response.filename.s)]
                         /\ pc' = "shutil_move"
                         /\ log' = log
                         /\ doc' = Entered
    /\ UNCHANGED redactIO
    /\ UNCHANGED <<listing, idx, file, text, ai_response, srcFiles, files,
                   files0, calls>>

\* how shutil.move(file_path, new_file_path) can end: the rename succeeds;
\* it raises with nothing changed; os.rename fails, the fallback copies the
\* file and os.unlink of the source raises
MoveOutcomes == {"ok", "error", "copied"}

ShutilMove ==
    /\ pc = "shutil_move"
    /\ \E how \in MoveOutcomes :
        /\ files' = IF how = "error" THEN files
                    ELSE (target :> ContentOf(file)) @@ files
        /\ srcFiles' = IF how = "ok" THEN srcFiles \ {file} ELSE srcFiles
        /\ log' = Append(log, Entry(IF how = "ok" THEN "Filed" ELSE "Failed"))
        /\ doc' = [doc EXCEPT !.moveCalls = @ + 1,
                              !.why = IF how = "ok" THEN "moved"
                                      ELSE "OSError: move"]
    /\ pc' = "returned"
    /\ UNCHANGED redactIO
    /\ UNCHANGED <<listing, idx, file, text, ai_response, target, dirs,
                   files0, calls>>

Next ==
    \/ SkipEntry
    \/ CallProcessPdf
    \/ ReturnToLoop
    \/ EndOfBatch
    \/ ExtractNative
    \/ Classify1
    \/ ExtractOcr
    \/ Classify2
    \/ CheckUnreadable
    \/ MovePdfPrepare
    \/ ShutilMove

Spec == Init /\ [][Next]_vars

\* every call returns, so the single thread of control always takes its
\* next step
LiveSpec == Spec /\ WF_vars(Next)

\* ------------------------------------------------------------------------
\* redact_sensitive_info applied to texts, apart from the batch (no code
\* of the program calls it)
\* ------------------------------------------------------------------------
S_ssn == <<"1", "2", "3", "-", "4", "5", "-", "6", "7", "8", "9">>
S_card == <<"4", "1", "1", "1", "-", "1", "1", "1", "1", "-", "1", "1", "1", "1", "-", "1", "1", "1", "1">>
S_account == <<"1", "2", "3", "4", "5", "6", "7", "8", "9">>
S_ssn_head == <<"1", "2", "3", "-", "4", "5", "-">>

\* the pieces the texts are made of
Chunks == {S_ssn, S_card, S_account, S_ssn_head,
           <<"-">>, <<" ">>, <<"x">>, <<"1">>}

RECURSIVE Concat(_)
Concat(cs) == IF cs = <<>> THEN <<>> ELSE Head(cs) \o Concat(Tail(cs))

\* the texts of at most MaxChunks pieces
RedactInputs ==
    {Concat(cs) : cs \in UNION {[1..n -> Chunks] : n \in 0..MaxChunks}}

RedactInit ==
    /\ redactIO \in {<<t>> : t \in RedactInputs}
    /\ pc = "redact"
    /\ listing = <<>>
    /\ idx = 1
    /\ file = <<>>
    /\ text = <<>>
    /\ ai_response = NoneResp
    /\ target = NoTarget
    /\ doc = NewDoc
    /\ srcFiles = {}
    /\ dirs = {}
    /\ files = <<>>
    /\ files0 = <<>>
    /\ calls = <<>>
    /\ log = <<>>

\* one more application of redact_sensitive_info to the last result
Redact ==
    /\ pc = "redact"
    /\ Len(redactIO) <= MaxRedacts
    /\ redactIO' =
          Append(redactIO, redact_sensitive_info(redactIO[Len(redactIO)]))
    /\ UNCHANGED <<listing, idx, pc, file, text, ai_response, target, doc,
                   srcFiles, dirs, files, files0, calls, log>>

RedactNext == Redact

RedactSpec == RedactInit /\ [][RedactNext]_vars

TypeOK ==
    /\ pc \in {"loop", "extract", "classify1", "ocr", "classify2", "check",
               "move_pdf", "shutil_move", "returned", "exit", "redact"}
    /\ idx \in 1..(Len(listing) + 1)

\* ------------------------------------------------------------------------
\* Vocabulary of the properties
\* ------------------------------------------------------------------------
\* process_pdf has returned for the document named by file
DocDone == pc \in {"returned", "loop", "exit"} /\ doc.llmCalls >= 1

\* the decisions printed for entry f
DecisionsOf(f) ==
    {i \in 1..Len(log) : log[i].file = f /\ log[i].what # "Skipped"}

\* decision w was printed for the current document
Decided(w) == \E i \in DecisionsOf(file) : log[i].what = w

\* w is the one decision printed for the current document
OnlyDecision(w) ==
    /\ Cardinality(DecisionsOf(file)) = 1
    /\ Decided(w)

\* the except clause reported a failure of the file system
EnvFault == doc.why \in {"OSError: makedirs", "OSError: move"}

\* the source is where it was and the output tree holds the same files
Untouched == file \in srcFiles /\ files = files0

\* a classification that is absent: None, or an empty object or string
Absent(r) ==
    \/ r = NoneResp
    \/ r = Dict(Missing, Missing, Missing, Missing)
    \/ r = StrResp(<<>>)

\* the lowercased string form holds "unknown" or "unidentified"
HasMarker(r) ==
    \E str \in {Str(r)} : \E low \in {Lower(str)} :
        \/ Contains(low, S_unknown)
        \/ Contains(low, S_unidentified)

\* the category is a string equal to "unreadable" up to case
CategoryUnreadable(r) ==
    /\ r.kind = "dict"
    /\ r.category.t = "str"
    /\ Lower(r.category.s) = S_unreadable

\* the result in effect: the first if it is not ambiguous, else the second
InEffect == IF HasMarker(doc.res1) THEN doc.res2 ELSE doc.res1

\* ------------------------------------------------------------------------
\* C1
\* ------------------------------------------------------------------------
\* C1: when process_pdf ends with a decision other than Filed and
\* shutil.move was never run (first or second classification absent,
\* Unreadable, or an exception caught before the move), the source file is
\* still in the input directory and the output tree holds no new file.
C1_NoFilingLeavesSource ==
    (DocDone /\ ~Decided("Filed") /\ doc.moveCalls = 0) => Untouched

\* a document failed in get_unique_filename, after makedirs had run
C1_Witness ==
    /\ pc = "returned"
    /\ OnlyDecision("Failed")
    /\ ai_response.filename = IntV(7)
    /\ doc.why = "TypeError"
    /\ YearDir(ai_response) \in dirs
    /\ Untouched

\* ------------------------------------------------------------------------
\* C2
\* ------------------------------------------------------------------------
\* the name ends in ".pdf", whatever the case of its letters
C2Pdf(name) ==
    /\ Len(name) >= 4
    /\ Lower(SubSeq(name, Len(name) - 3, Len(name))) = S_dotpdf

\* number of entries whose branch of the loop has been entered
C2Consumed == IF pc \in {"loop", "exit"} THEN idx - 1 ELSE idx

\* process_pdf was called exactly for the .pdf entries met so far, once
\* each and in listing order, and every earlier call has its decision
C2Order ==
    /\ calls = SelectSeq(SubSeq(listing, 1, C2Consumed), C2Pdf)
    /\ \A i \in 1..(Len(calls) - 1) : DecisionsOf(calls[i]) # {}

\* the batch is over: every .pdf entry was processed and has a decision,
\* every other entry was skipped
C2Final ==
    /\ pc = "exit"
    /\ calls = SelectSeq(listing, C2Pdf)
    /\ \A i \in 1..Len(calls) : DecisionsOf(calls[i]) # {}
    /\ \A i \in 1..Len(listing) :
          ~C2Pdf(listing[i]) =>
              /\ \A j \in 1..Len(calls) : calls[j] # listing[i]
              /\ \E j \in 1..Len(log) :
                    log[j].file = listing[i] /\ log[j].what = "Skipped"

\* C2: in batch mode every entry whose name ends in .pdf (in any case) is
\* passed to process_pdf exactly once, one at a time and in listing order,
\* and the batch reaches its end with a decision for each of them whatever
\* failed for earlier documents; other entries are skipped and never passed
\* to process_pdf.
C2_BatchProcessesEveryPdf == [](C2Order) /\ <>(C2Final)

\* the batch ended after a first document failed and a second one was filed
C2_Witness ==
    /\ pc = "exit"
    /\ Len(calls) = 2
    /\ \E i \in DecisionsOf(calls[1]) : log[i].what = "Failed"
    /\ \E i \in DecisionsOf(calls[2]) : log[i].what = "Filed"

\* ------------------------------------------------------------------------
\* C3
\* ------------------------------------------------------------------------
\* every finished call has printed exactly one decision, a call in progress
\* none, and shutil.move ran at most once for the document
C3Safety ==
    /\ doc.moveCalls <= 1
    /\ \A i \in 1..Len(calls) :
          IF i = Len(calls) /\ pc \notin {"returned", "loop", "exit"}
          THEN DecisionsOf(calls[i]) = {}
          ELSE /\ Cardinality(DecisionsOf(calls[i])) = 1
               /\ \A j \in DecisionsOf(calls[i]) :
                     log[j].what \in {"Filed", "Unreadable", "Failed"}

\* C3: every run of process_pdf ends, with exactly one decision among
\* Filed, Unreadable and Failed, and runs the move at most once.
C3_ExactlyOneDecision ==
    [](C3Safety) /\ ((pc = "extract") ~> (pc = "returned"))

\* a document ended Unreadable after the OCR retry
C3_Witness ==
    /\ pc = "returned"
    /\ doc.ocrCalls = 1
    /\ OnlyDecision("Unreadable")

\* ------------------------------------------------------------------------
\* C4
\* ------------------------------------------------------------------------
\* C4: when the first classification is absent the document is Failed at
\* once: no OCR, no second request to the classifier, no call of move_pdf,
\* nothing moved.
C4_FirstAbsentFails ==
    (doc.llmCalls >= 1 /\ Absent(doc.res1)) =>
        /\ pc \in {"returned", "loop", "exit"}
        /\ OnlyDecision("Failed")
        /\ doc.llmCalls = 1
        /\ doc.ocrCalls = 0
        /\ doc.movePdfCalls = 0
        /\ doc.moveCalls = 0
        /\ Untouched

\* the first request failed and process_pdf has returned
C4_Witness ==
    /\ pc = "returned"
    /\ doc.llmCalls = 1
    /\ doc.res1 = NoneResp
    /\ OnlyDecision("Failed")

\* ------------------------------------------------------------------------
\* C5
\* ------------------------------------------------------------------------
\* C5: the OCR extractor runs for a document if and only if the first
\* classification is present and its lowercased string form contains
\* "unknown" or "unidentified".
C5_OcrIffAmbiguous ==
    /\ doc.llmCalls = 0 => doc.ocrCalls = 0
    /\ pc = "ocr" => ~Absent(doc.res1) /\ HasMarker(doc.res1)
    /\ (doc.llmCalls >= 1 /\ pc # "ocr") =>
          (doc.ocrCalls >= 1 <=> (~Absent(doc.res1) /\ HasMarker(doc.res1)))

\* OCR ran because a field other than category, date and filename holds
\* "Unidentified"
C5_Witness ==
    /\ doc.ocrCalls = 1
    /\ doc.res1.note = StrV(S_Unidentified_sender)
    /\ doc.res1.date = Date2023

\* ------------------------------------------------------------------------
\* C6
\* ------------------------------------------------------------------------
\* C6: when the retry ran and the second classification is absent, the
\* document ends Failed: never Filed, never Unreadable, the source stays,
\* and process_pdf returns to the loop (the program does not end before
\* the listing is exhausted).
C6_SecondAbsentFails ==
    (doc.llmCalls = 2 /\ Absent(doc.res2)) =>
        /\ pc \in {"check", "move_pdf", "returned", "loop", "exit"}
        /\ IF pc \in {"check", "move_pdf"}
           THEN DecisionsOf(file) = {}
           ELSE OnlyDecision("Failed")
        /\ doc.moveCalls = 0
        /\ Untouched
        /\ pc = "exit" => idx > Len(listing)

\* the second request failed and process_pdf has returned
C6_Witness ==
    /\ pc = "returned"
    /\ doc.llmCalls = 2
    /\ doc.res2 = NoneResp
    /\ OnlyDecision("Failed")

\* ------------------------------------------------------------------------
\* C7
\* ------------------------------------------------------------------------
\* C7: a document ends Unreadable exactly when the category of the result
\* in effect equals "unreadable" up to case, whatever its other fields;
\* it is then not filed and its source is untouched.
C7_UnreadableIffCategory ==
    DocDone =>
        /\ Decided("Unreadable") <=> CategoryUnreadable(InEffect)
        /\ Decided("Unreadable") => OnlyDecision("Unreadable") /\ Untouched

\* a document with category "Unreadable" ended Unreadable
C7_Witness ==
    /\ DocDone
    /\ InEffect.category = StrV(S_Unreadable)
    /\ OnlyDecision("Unreadable")

\* ------------------------------------------------------------------------
\* C8
\* ------------------------------------------------------------------------
\* category, date and filename are strings
C8Complete(r) ==
    /\ r.kind = "dict"
    /\ r.category.t = "str"
    /\ r.date.t = "str"
    /\ r.filename.t = "str"

\* the path move_pdf computes for result r in the tree process_pdf found
C8Path(r) ==
    [dir |-> YearDir(r),
     name |-> get_unique_filename(files0, YearDir(r), r.filename.s)]

\* C8: when the retry ran and the second classification is present, the
\* second result alone decides: the document is Unreadable exactly when the
\* second category is "unreadable"; when filed it lies at the path computed
\* from the second result; a second result that is not unreadable and has
\* its three fields is filed unless the file system fails.
C8_SecondDecides ==
    (DocDone /\ doc.llmCalls = 2 /\ ~Absent(doc.res2)) =>
        /\ Decided("Unreadable") <=> CategoryUnreadable(doc.res2)
        /\ Decided("Filed") =>
              /\ target = C8Path(doc.res2)
              /\ target \in DOMAIN files
              /\ files[target] = ContentOf(file)
        /\ (C8Complete(doc.res2) /\ ~CategoryUnreadable(doc.res2)) =>
              (Decided("Filed") \/ EnvFault)

\* the first result had date "unknown", the second was filed under 2023
C8_Witness ==
    /\ DocDone
    /\ doc.llmCalls = 2
    /\ doc.res1.date = StrV(S_unknown)
    /\ OnlyDecision("Filed")
    /\ target.dir.year = S_2023

\* ------------------------------------------------------------------------
\* C9
\* ------------------------------------------------------------------------
\* move_pdf was called with ai_response and has computed its path or raised
C9Passed ==
    /\ doc.movePdfCalls = 1
    /\ pc \in {"shutil_move", "returned", "loop", "exit"}

\* the first four characters of a proper date
C9FirstFour ==
    LET d == ai_response.date IN
    (d.t = "str" /\ Len(d.s) >= 4 /\ d.s # S_unknown) =>
        ((pc = "shutil_move" \/ Decided("Filed")) =>
            target.dir.year = SubSeq(d.s, 1, 4))

\* a result with date d, whose other fields are usable, is filed under
\* "Unkn" unless the file system fails
C9UnderUnkn(d) ==
    (/\ ai_response.date = d
     /\ ai_response.category.t = "str"
     /\ ai_response.filename.t = "str") =>
        /\ pc = "shutil_move" => target.dir.year = S_Unkn
        /\ (DocDone /\ ~EnvFault) =>
              OnlyDecision("Filed") /\ target.dir.year = S_Unkn

\* C9 as stated: a date of four or more characters other than "unknown"
\* gives its first four characters as year directory; a date that is
\* "unknown" or absent gives "Unkn", and the document is filed under it.
C9_AsStated ==
    C9Passed =>
        /\ C9FirstFour
        /\ C9UnderUnkn(StrV(S_unknown))
        /\ C9UnderUnkn(Missing)

\* C9 (amended): a date of four or more characters other than "unknown"
\* gives its first four characters as year directory; a date that is
\* "unknown", null or empty gives "Unkn", and the document is filed under
\* it; a result without the key date is not filed: move_pdf raises KeyError
\* before it computes a year, and the document ends Failed, untouched.
C9_YearDirectory ==
    C9Passed =>
        /\ C9FirstFour
        /\ C9UnderUnkn(StrV(S_unknown))
        /\ C9UnderUnkn(Null)
        /\ C9UnderUnkn(StrV(<<>>))
        /\ ai_response.date = Missing =>
              /\ pc # "shutil_move"
              /\ OnlyDecision("Failed")
              /\ doc.why = "KeyError"
              /\ Untouched
              /\ target = NoTarget

\* a document whose second result has date "unknown" was filed under Unkn
C9_Witness ==
    /\ DocDone
    /\ ai_response.date = StrV(S_unknown)
    /\ OnlyDecision("Filed")
    /\ target.dir.year = S_Unkn
    /\ target \in DOMAIN files

\* ------------------------------------------------------------------------
\* C10
\* ------------------------------------------------------------------------
C10Exists(d, n) == [dir |-> d, name |-> n] \in DOMAIN files

\* base-n.ext
C10Name(parts, n) == parts[1] \o <<"-">> \o IntStr(n) \o parts[2]

\* C10: get_unique_filename returns the suggested name when the directory
\* has no such entry, else base-n.ext for the smallest n >= 1 that names no
\* entry; the name returned names no entry, and no file that was in the
\* output tree is replaced or removed by the move.
C10_UniqueFilename ==
    /\ pc = "shutil_move" =>
          LET fn == ai_response.filename.s
              parts == splitext(fn)
              d == target.dir
          IN  /\ ~C10Exists(d, target.name)
              /\ ~C10Exists(d, fn) => target.name = fn
              /\ C10Exists(d, fn) =>
                    \E n \in 1..(Cardinality(DOMAIN files) + 1) :
                        /\ target.name = C10Name(parts, n)
                        /\ \A m \in 1..(n - 1) :
                              C10Exists(d, C10Name(parts, m))
    /\ \A p \in DOMAIN files0 : p \in DOMAIN files /\ files[p] = files0[p]

\* inv.pdf and inv-2.pdf exist, inv-1.pdf does not: inv-1.pdf is chosen
C10_Witness ==
    /\ pc = "shutil_move"
    /\ target.dir = HotDir
    /\ ai_response.filename = InvPdf
    /\ target.name = S_inv \o <<"-", "1">> \o S_dotpdf
    /\ C10Exists(HotDir, S_inv_pdf)
    /\ C10Exists(HotDir, S_inv \o <<"-", "2">> \o S_dotpdf)

\* ------------------------------------------------------------------------
\* C11
\* ------------------------------------------------------------------------
\* C11: when shutil.move fails the document ends Failed and the loop goes
\* on, the source is where it was, and the output tree holds no copy,
\* partial or whole, of the document.
C11_FailedMoveLeavesNothing ==
    (DocDone /\ doc.why = "OSError: move") =>
        /\ OnlyDecision("Failed")
        /\ file \in srcFiles
        /\ files = files0
        /\ pc = "exit" => idx > Len(listing)

\* ------------------------------------------------------------------------
\* C12
\* ------------------------------------------------------------------------
\* one of the keys category, date, filename is not in the object
C12Lacks(r) ==
    \/ r.category.t = "missing"
    \/ r.date.t = "missing"
    \/ r.filename.t = "missing"

\* C12: a document is filed only from a result that has category, date and
\* filename; a result in effect that is an object, is not unreadable and
\* lacks one of them ends Failed inside process_pdf: the source, the files
\* and the directories of the output tree are as before and the loop goes
\* on.
C12_MissingFieldFails ==
    /\ Decided("Filed") => (ai_response.kind = "dict" /\ ~C12Lacks(ai_response))
    /\ (/\ DocDone
        /\ InEffect.kind = "dict"
        /\ ~CategoryUnreadable(InEffect)
        /\ C12Lacks(InEffect)) =>
            /\ OnlyDecision("Failed")
            /\ doc.moveCalls = 0
            /\ Untouched
            /\ dirs = doc.dirs0
            /\ pc = "exit" => idx > Len(listing)

\* a result without the key date reached move_pdf and failed there
C12_Witness ==
    /\ pc = "returned"
    /\ doc.movePdfCalls = 1
    /\ ai_response = Dict(Invoice, Missing, InvPdf, Missing)
    /\ doc.why = "KeyError"
    /\ OnlyDecision("Failed")

\* ------------------------------------------------------------------------
\* C13: every text sent to the classification service, on the first pass
\* and on the retry, has been passed through the redactor first: what is
\* sent is what redact_sensitive_info returns, which it leaves as it is.
C13_SentTextsRedacted ==
    \A i \in 1..Len(doc.sent) :
        redact_sensitive_info(doc.sent[i]) = doc.sent[i]

\* ------------------------------------------------------------------------
\* The patterns as the claims about the redactor read them, stated apart
\* from the operators of the redactor
C14Word(t, i) ==
    /\ i \in 1..Len(t)
    /\ \/ \E k \in 1..Len(DigitChars) : t[i] = DigitChars[k]
       \/ \E k \in 1..Len(LowerChars) : t[i] \in {LowerChars[k], UpperChars[k]}
       \/ t[i] = "_"

\* groups of digits of the lengths of lens, joined by "-", start at index i
\* of t
RECURSIVE C14Groups(_, _, _)
C14Groups(t, i, lens) ==
    /\ i + lens[1] - 1 <= Len(t)
    /\ \A k \in i..(i + lens[1] - 1) :
          \E d \in 1..Len(DigitChars) : t[k] = DigitChars[d]
    /\ Len(lens) > 1 =>
          /\ i + lens[1] <= Len(t)
          /\ t[i + lens[1]] = "-"
          /\ C14Groups(t, i + lens[1] + 1, Tail(lens))

RECURSIVE C14Width(_)
C14Width(lens) ==
    IF Len(lens) = 1 THEN lens[1] ELSE lens[1] + 1 + C14Width(Tail(lens))

\* such groups stand at index i of t as a word of their own
C14Occurs(t, i, lens) ==
    /\ i \in 1..Len(t)
    /\ C14Groups(t, i, lens)
    /\ ~C14Word(t, i - 1)
    /\ ~C14Word(t, i + C14Width(lens))

C14Ssn == <<3, 2, 4>>
C14Card == <<4, 4, 4, 4>>
C14Account == <<9>>
C14Kinds == {C14Ssn, C14Card, C14Account}
C14Token(lens) ==
    IF lens = C14Ssn THEN T_SSN ELSE IF lens = C14Card THEN T_CARD ELSE T_ACCOUNT

\* the occurrences of one pattern in t from index i on, counted from the
\* left, none overlapping another
RECURSIVE C14Count(_, _, _)
C14Count(t, i, lens) ==
    IF i > Len(t) THEN 0
    ELSE IF C14Occurs(t, i, lens)
         THEN 1 + C14Count(t, i + C14Width(lens), lens)
         ELSE C14Count(t, i + 1, lens)

\* the places of t where tok stands
C14Tokens(t, tok) ==
    Cardinality({i \in 1..Len(t) :
        /\ i + Len(tok) - 1 <= Len(t)
        /\ SubSeq(t, i, i + Len(tok) - 1) = tok})

\* an SSN-like and a card-like occurrence of t share characters
C14Overlap(t) ==
    \E i, j \in 1..Len(t) :
        /\ C14Occurs(t, i, C14Ssn)
        /\ C14Occurs(t, j, C14Card)
        /\ i < j + C14Width(C14Card)
        /\ j < i + C14Width(C14Ssn)

C14Idempotent ==
    \A k \in 2..(Len(redactIO) - 1) : redactIO[k + 1] = redactIO[k]

C14Unchanged ==
    (/\ Len(redactIO) >= 2
     /\ \A lens \in C14Kinds : C14Count(redactIO[1], 1, lens) = 0)
        => redactIO[2] = redactIO[1]

C14OwnToken(lens) ==
    Len(redactIO) >= 2 =>
        C14Tokens(redactIO[2], C14Token(lens)) = C14Count(redactIO[1], 1, lens)

\* C14 as stated: the redactor is idempotent, leaves a text matching none
\* of the three patterns unchanged, and replaces every occurrence of a
\* pattern by the token of that pattern.
C14_AsStated ==
    /\ C14Idempotent
    /\ C14Unchanged
    /\ \A lens \in C14Kinds : C14OwnToken(lens)

\* ------------------------------------------------------------------------
\* C15: the move is the only step of a document's processing that changes
\* the file system: up to the call of shutil.move the directories and files
\* of the output tree are as process_pdf found them, and a document that
\* ends without being filed leaves the output tree exactly as it was.
C15_MoveOnlyChange ==
    /\ pc \in {"extract", "classify1", "ocr", "classify2", "check",
               "move_pdf", "shutil_move"} =>
            (files = files0 /\ dirs = doc.dirs0)
    /\ (DocDone /\ ~Decided("Filed")) =>
            (files = files0 /\ dirs = doc.dirs0)

\* ------------------------------------------------------------------------
\* C16: for every document, native extraction runs exactly once and before
\* any classifier request; the OCR extractor runs at most once and only
\* after the first classification; the classifier is requested at most
\* twice, once per extraction attempt; a second result that is still
\* ambiguous causes no further OCR or classification attempt.
C16_CallBudget ==
    /\ doc.extractCalls <= 1
    /\ doc.llmCalls >= 1 => doc.extractCalls = 1
    /\ doc.ocrCalls <= 1
    /\ doc.ocrCalls >= 1 => doc.llmCalls >= 1
    /\ doc.llmCalls <= 2
    /\ doc.llmCalls <= doc.extractCalls + doc.ocrCalls
    /\ doc.llmCalls = 2 => pc \notin {"extract", "classify1", "ocr", "classify2"}
    /\ DocDone => doc.llmCalls = doc.extractCalls + doc.ocrCalls

C16_Witness ==
    /\ DocDone
    /\ doc.extractCalls = 1
    /\ doc.ocrCalls = 1
    /\ doc.llmCalls = 2
    /\ doc.res2 = Dict(Invoice, StrV(S_unknown), InvPdf, Missing)
    /\ HasMarker(doc.res2)
    /\ doc.why = "moved"

\* ------------------------------------------------------------------------
\* C17: once extract_text_with_gpt4_vision has returned, whether it
\* succeeded, rendered no page or failed on the way, no document handle it
\* opened is still open.
C17_HandleReleased == doc.ocrCalls >= 1 => ~doc.handleOpen

\* ------------------------------------------------------------------------
\* C18: on the first pass the ambiguity check comes before the unreadable
\* check: a first result of category "unreadable" that contains "unknown"
\* or "unidentified" goes through OCR and a second classification, and
\* Unreadable is decided without an OCR call only when the first result
\* contains neither.
C18_AmbiguityBeforeUnreadable ==
    /\ (/\ doc.llmCalls >= 1
        /\ doc.res1.kind = "dict"
        /\ CategoryUnreadable(doc.res1)
        /\ HasMarker(doc.res1)) =>
            /\ pc = "ocr" \/ doc.ocrCalls = 1
            /\ DocDone => doc.llmCalls = 2
    /\ (DocDone /\ Decided("Unreadable") /\ doc.ocrCalls = 0) =>
            ~HasMarker(doc.res1)

C18_Witness ==
    /\ DocDone
    /\ doc.res1 = Dict(StrV(S_unreadable), StrV(S_unknown), Missing, Missing)
    /\ doc.ocrCalls = 1
    /\ doc.llmCalls = 2
    /\ doc.res2 = Dict(Invoice, Date2023, InvPdf, Missing)
    /\ OnlyDecision("Filed")

\* ------------------------------------------------------------------------
\* C19: whenever a document is filed from a result whose date is exactly
\* "unknown", the OCR extractor and a second classification ran for it
\* before the move; filing from the first classification with date
\* "unknown" does not happen.
C19_UnknownDateOnlyAfterRetry ==
    (/\ pc = "shutil_move" \/ (DocDone /\ doc.moveCalls >= 1)
     /\ ai_response.kind = "dict"
     /\ ai_response.date = StrV(S_unknown)) =>
        /\ doc.ocrCalls = 1
        /\ doc.llmCalls = 2
        /\ ai_response = doc.res2

C19_Witness ==
    /\ pc = "shutil_move"
    /\ ai_response.date = StrV(S_unknown)
    /\ target.dir.year = S_Unkn
    /\ doc.ocrCalls = 1
    /\ doc.llmCalls = 2
    /\ doc.res1 = Dict(Invoice, Date2023, InvPdf, StrV(S_Unidentified_sender))

\* ------------------------------------------------------------------------
\* the documents of the batch for which Filed was printed
C20Filed == {log[i].file : i \in {k \in 1..Len(log) : log[k].what = "Filed"}}

\* the paths of the output tree that hold document f
C20PathsOf(f) == {p \in DOMAIN files : files[p].src = f}

\* no step removes or replaces a file of the output tree
C20Kept == \A p \in DOMAIN files : p \in DOMAIN files' /\ files'[p] = files[p]

C20Accounted ==
    \A i \in 1..Len(listing) :
        IF listing[i] \in C20Filed
        THEN /\ Cardinality(C20PathsOf(listing[i])) = 1
             /\ listing[i] \notin srcFiles
        ELSE listing[i] \in srcFiles

\* C20: over a batch run from any output tree, every file that was in the
\* tree stays at its path with its content, every Filed document is at
\* exactly one path of the tree, which no earlier file and no other Filed
\* document holds, and every document that was not Filed is still at its
\* source path.
C20_FilesConserved == [][C20Kept]_vars /\ []C20Accounted

\* a.pdf and B.PDF were both filed as inv.pdf of Invoice/2023, where inv.pdf
\* was before the run
C20_Witness ==
    /\ pc = "exit"
    /\ C20Filed = {S_a_pdf, S_B_PDF}
    /\ \E p, q, r \in DOMAIN files :
        /\ p.dir = HotDir /\ q.dir = HotDir /\ r.dir = HotDir
        /\ files[p] = ContentOf(S_a_pdf)
        /\ files[q] = ContentOf(S_B_PDF)
        /\ files[r] = OldContent /\ r.name = S_inv_pdf
        /\ {p.name, q.name} \subseteq HotNames
====
